---- MODULE Spec2Model ----
(***************************************************************************)
(* A model of clex (src/clex/clex.py): a character-class driven lexical    *)
(* scanner with a character pushback buffer (_oops) and a token stack.     *)
(*                                                                         *)
(* A Python string is a sequence of one-character strings; the empty       *)
(* string '' (end of input, and the eof token) is the empty sequence.      *)
(* A scanner object is the record                                          *)
(*   [cfg, instream, tokenstack, oops]                                     *)
(* where instream = [data, pos] is the io.StringIO the constructor wraps   *)
(* the text in.  Every method is an operator from the object (and its      *)
(* arguments) to its result and the object it leaves behind.               *)
(***************************************************************************)
EXTENDS Integers, Sequences, FiniteSets, TLC

VARIABLES cfg, instream, tokenstack, oops, ret, log, items

vars == <<cfg, instream, tokenstack, oops, ret, log, items>>

\* ------------------------------------------------------------ characters
SP == " "
TAB == "\t"
CR == "\r"
LF == "\n"
BS == "\\"
DQ == "\""
SQ == "'"

\* the text s as the list of its characters, [x for x in s]
Chars(s) == [i \in 1..Len(s) |-> <<s[i]>>]

\* Python's `one in s` for a one-character string `one`
InStr(one, s) == \E i \in 1..Len(s) : <<s[i]>> = one

\* w.startswith(t) and t.endswith(v)
StartsWith(w, t) == Len(t) <= Len(w) /\ SubSeq(w, 1, Len(t)) = t

EndsWith(t, v) == Len(v) <= Len(t) /\ SubSeq(t, Len(t) - Len(v) + 1, Len(t)) = v

\* ------------------------------------------------------------ errors
NoError == "none"
UnexpectedToken == "UnexpectedToken"
UnexpectedEOFError == "UnexpectedEOFError"
UnexpectedEOLError == "UnexpectedEOLError"
IndexError == "IndexError"
TypeError == "TypeError"

\* ------------------------------------------------------------ configuration
Letters ==
  << "a","b","c","d","f","e","g","h","i","j","k","l","m","n","o","p","q","r",
     "s","t","u","v","w","x","y","z","A","B","C","D","E","F","G","H","I","J",
     "K","L","M","N","O","P","Q","R","S","T","U","V","W","X","Y","Z","_" >>

Digits == << "0","1","2","3","4","5","6","7","8","9" >>

\* the fields clex.__init__ sets
DefaultCfg ==
  [ escape               |-> <<BS>>,
    quotes               |-> <<DQ, SQ>>,
    whitespace           |-> <<SP, TAB, CR, LF>>,
    oneline_commenters   |-> << <<"/", "/">> >>,
    multiline_commenters |-> << << <<"/", "*">>, <<"*", "/">> >> >>,
    tokenchars           |-> << Letters, Digits >>,
    numchars             |-> << Digits, <<".">>, <<"-", "+">> >>,
    eof                  |-> <<>> ]

\* clex(instream) with the configuration c set before the first call
NewClex(c, text) ==
  [ cfg |-> c, instream |-> [data |-> text, pos |-> 1],
    tokenstack |-> <<>>, oops |-> <<>> ]

\* ------------------------------------------------------------ _readone
\* one character from _oops if it holds any, else from the stream;
\* '' at the end of the stream
Readone(self) ==
  IF Len(self.oops) > 0
    THEN [one |-> Head(self.oops), self |-> [self EXCEPT !.oops = Tail(@)]]
    ELSE IF self.instream.pos <= Len(self.instream.data)
      THEN [one  |-> <<self.instream.data[self.instream.pos]>>,
            self |-> [self EXCEPT !.instream.pos = @ + 1]]
      ELSE [one |-> <<>>, self |-> self]

\* ------------------------------------------------------------ _findtokens_pass
\* a pass that compares `token` with the first candidate alone
FindtokensPass_First(token, tokens) ==
  IF Len(tokens) > 0 /\ tokens[1] = token
    THEN [remaining |-> <<>>, found |-> TRUE]
    ELSE [remaining |-> SelectSeq(tokens, LAMBDA w : StartsWith(w, token)),
          found |-> FALSE]

\* a pass that reports `token` found only when no candidate extends it
FindtokensPass_Longest(token, tokens) ==
  IF (\E k \in 1..Len(tokens) : tokens[k] = token)
     /\ ~(\E k \in 1..Len(tokens) : tokens[k] # token /\ StartsWith(tokens[k], token))
    THEN [remaining |-> <<>>, found |-> TRUE]
    ELSE [remaining |-> SelectSeq(tokens, LAMBDA w : StartsWith(w, token)),
          found |-> FALSE]

\* found when `token` is one of `tokens`; else the entries that start with it
FindtokensPass(token, tokens) ==
  IF \E i \in 1..Len(tokens) : tokens[i] = token
    THEN [remaining |-> <<>>, found |-> TRUE]
    ELSE [remaining |-> SelectSeq(tokens, LAMBDA w : StartsWith(w, token)),
          found |-> FALSE]

\* ------------------------------------------------------------ _findtokens
\* a loop that gives up without restoring what it read
RECURSIVE FindtokensLoop_Eat(_, _, _)
FindtokensLoop_Eat(token, tokens, self) ==
  IF Len(tokens) = 0
    THEN [kind |-> "None", tok |-> <<>>, self |-> self]
    ELSE LET r == Readone(self) IN
      IF Len(r.one) = 0
        THEN [kind |-> "None", tok |-> <<>>, self |-> r.self]
        ELSE LET t2 == token \o r.one
                 p  == FindtokensPass(t2, tokens)
             IN IF p.found
                  THEN [kind |-> "str", tok |-> t2, self |-> r.self]
                  ELSE FindtokensLoop_Eat(t2, p.remaining, r.self)

\* a loop that restores the whole token, its first character too
RECURSIVE FindtokensLoop_Whole(_, _, _)
FindtokensLoop_Whole(token, tokens, self) ==
  IF Len(tokens) = 0
    THEN [kind |-> "None", tok |-> <<>>,
          self |-> [self EXCEPT !.oops = @ \o Chars(token)]]
    ELSE LET r == Readone(self) IN
      IF Len(r.one) = 0
        THEN [kind |-> "None", tok |-> <<>>,
              self |-> [r.self EXCEPT !.oops = @ \o Chars(token) \o <<r.one>>]]
        ELSE LET t2 == token \o r.one
                 p  == FindtokensPass(t2, tokens)
             IN IF p.found
                  THEN [kind |-> "str", tok |-> t2, self |-> r.self]
                  ELSE FindtokensLoop_Whole(t2, p.remaining, r.self)

\* The result is kind "str" (the token found), "None", or "tuple": with no
\* candidates the code returns the pair (token, False), which is not None.
RECURSIVE FindtokensLoop(_, _, _)
FindtokensLoop(token, tokens, self) ==
  IF Len(tokens) = 0
    THEN [kind |-> "None", tok |-> <<>>,
          self |-> [self EXCEPT !.oops = @ \o Chars(Tail(token))]]
    ELSE LET r == Readone(self) IN
      IF Len(r.one) = 0
        THEN [kind |-> "None", tok |-> <<>>,
              self |-> [r.self EXCEPT !.oops = @ \o Chars(Tail(token)) \o <<r.one>>]]
        ELSE LET t2 == token \o r.one
                 p  == FindtokensPass(t2, tokens)
             IN IF p.found
                  THEN [kind |-> "str", tok |-> t2, self |-> r.self]
                  ELSE FindtokensLoop(t2, p.remaining, r.self)

\* `tokens` is a list of strings; for a str argument (whitespace, quotes)
\* the caller passes Chars of it, the list line 181 makes of a str
Findtokens(token, tokens, self) ==
  IF Len(tokens) = 0
    THEN [kind |-> "tuple", tok |-> token, self |-> self]
    ELSE LET p == FindtokensPass(token, tokens) IN
      IF p.found
        THEN [kind |-> "str", tok |-> token, self |-> self]
        ELSE IF Len(p.remaining) = 0
          THEN [kind |-> "None", tok |-> <<>>, self |-> self]
          ELSE FindtokensLoop(token, p.remaining, self)

\* ------------------------------------------------------------ _consumeuntil
\* a loop that also stops once a carriage return or a line feed is consumed
RECURSIVE ConsumeuntilLoop_AnyEol(_, _, _, _, _)
ConsumeuntilLoop_AnyEol(token, value, allow_eof, allow_eol, self) ==
  IF EndsWith(token, value) \/ EndsWith(token, <<CR>>) \/ EndsWith(token, <<LF>>)
    THEN [tok |-> token, err |-> NoError, self |-> self]
    ELSE LET r == Readone(self) IN
      IF Len(r.one) = 0
        THEN IF allow_eof
               THEN [tok |-> token, err |-> NoError, self |-> r.self]
               ELSE [tok |-> <<>>, err |-> UnexpectedEOFError, self |-> r.self]
        ELSE IF ~allow_eol /\ InStr(r.one, <<CR, LF>>) /\ ~InStr(r.one, value)
          THEN [tok |-> <<>>, err |-> UnexpectedEOLError, self |-> r.self]
          ELSE ConsumeuntilLoop_AnyEol(token \o r.one, value, allow_eof, allow_eol, r.self)

RECURSIVE ConsumeuntilLoop(_, _, _, _, _)
ConsumeuntilLoop(token, value, allow_eof, allow_eol, self) ==
  IF EndsWith(token, value)
    THEN [tok |-> token, err |-> NoError, self |-> self]
    ELSE LET r == Readone(self) IN
      IF Len(r.one) = 0
        THEN IF allow_eof
               THEN [tok |-> token, err |-> NoError, self |-> r.self]
               ELSE [tok |-> <<>>, err |-> UnexpectedEOFError, self |-> r.self]
        ELSE IF ~allow_eol /\ InStr(r.one, <<CR, LF>>) /\ ~InStr(r.one, value)
          THEN [tok |-> <<>>, err |-> UnexpectedEOLError, self |-> r.self]
          ELSE ConsumeuntilLoop(token \o r.one, value, allow_eof, allow_eol, r.self)

Consumeuntil(value, allow_eof, allow_eol, self) ==
  ConsumeuntilLoop(<<>>, value, allow_eof, allow_eol, self)

\* ------------------------------------------------------------ _consumestring
\* a loop that closes the string at the first quote, escaped or not
RECURSIVE ConsumestringLoop_NoEscape(_, _, _)
ConsumestringLoop_NoEscape(token, quote, self) ==
  LET r == Readone(self) IN
    IF Len(r.one) = 0
      THEN [tok |-> <<>>, err |-> UnexpectedEOFError, self |-> r.self]
      ELSE IF InStr(r.one, <<CR, LF>>)
        THEN [tok |-> <<>>, err |-> UnexpectedEOLError, self |-> r.self]
        ELSE IF r.one = quote
          THEN [tok |-> token \o r.one, err |-> NoError, self |-> r.self]
          ELSE ConsumestringLoop_NoEscape(token \o r.one, quote, r.self)

\* a loop that lets an escaped line terminator into the string
RECURSIVE ConsumestringLoop_EscapedEol(_, _, _)
ConsumestringLoop_EscapedEol(token, quote, self) ==
  LET r == Readone(self) IN
    IF Len(r.one) = 0
      THEN [tok |-> <<>>, err |-> UnexpectedEOFError, self |-> r.self]
      ELSE IF InStr(r.one, <<CR, LF>>) /\ ~InStr(<<token[Len(token)]>>, self.cfg.escape)
        THEN [tok |-> <<>>, err |-> UnexpectedEOLError, self |-> r.self]
        ELSE IF r.one = quote /\ ~InStr(<<token[Len(token)]>>, self.cfg.escape)
          THEN [tok |-> token \o r.one, err |-> NoError, self |-> r.self]
          ELSE ConsumestringLoop_EscapedEol(token \o r.one, quote, r.self)

RECURSIVE ConsumestringLoop(_, _, _)
ConsumestringLoop(token, quote, self) ==
  LET r == Readone(self) IN
    IF Len(r.one) = 0
      THEN [tok |-> <<>>, err |-> UnexpectedEOFError, self |-> r.self]
      ELSE IF InStr(r.one, <<CR, LF>>)
        THEN [tok |-> <<>>, err |-> UnexpectedEOLError, self |-> r.self]
        ELSE IF r.one = quote /\ ~InStr(<<token[Len(token)]>>, self.cfg.escape)
          THEN [tok |-> token \o r.one, err |-> NoError, self |-> r.self]
          ELSE ConsumestringLoop(token \o r.one, quote, r.self)

\* `q` is what _findtokens returned.  For the pair (token, False) no
\* character equals it and `token + curr` is tuple + str: a TypeError.
Consumestring(q, self) ==
  IF q.kind = "str"
    THEN ConsumestringLoop(q.tok, q.tok, self)
    ELSE LET r == Readone(self) IN
      IF Len(r.one) = 0
        THEN [tok |-> <<>>, err |-> UnexpectedEOFError, self |-> r.self]
        ELSE IF InStr(r.one, <<CR, LF>>)
          THEN [tok |-> <<>>, err |-> UnexpectedEOLError, self |-> r.self]
          ELSE [tok |-> <<>>, err |-> TypeError, self |-> r.self]

\* ------------------------------------------------------------ read_token
\* the identifier loop returning the character that ended it (ntoken), not
\* the identifier
RECURSIVE KeywordLoop_Last(_, _)
KeywordLoop_Last(token, self) ==
  LET r == Readone(self) IN
    IF Len(r.one) = 0
       \/ (~InStr(r.one, self.cfg.tokenchars[1]) /\ ~InStr(r.one, self.cfg.tokenchars[2]))
      THEN [tok |-> r.one, err |-> NoError,
            self |-> [r.self EXCEPT !.oops = Append(@, r.one)]]
      ELSE KeywordLoop_Last(token \o r.one, r.self)

\* the identifier loop dropping the character that ended it
RECURSIVE KeywordLoop_Drop(_, _)
KeywordLoop_Drop(token, self) ==
  LET r == Readone(self) IN
    IF Len(r.one) = 0
       \/ (~InStr(r.one, self.cfg.tokenchars[1]) /\ ~InStr(r.one, self.cfg.tokenchars[2]))
      THEN [tok |-> token, err |-> NoError, self |-> r.self]
      ELSE KeywordLoop_Drop(token \o r.one, r.self)

\* lines 105-112: accumulate an identifier; the terminating character
\* ('' at end of input too) is appended to _oops
RECURSIVE KeywordLoop(_, _)
KeywordLoop(token, self) ==
  LET r == Readone(self) IN
    IF Len(r.one) = 0
       \/ (~InStr(r.one, self.cfg.tokenchars[1]) /\ ~InStr(r.one, self.cfg.tokenchars[2]))
      THEN [tok |-> token, err |-> NoError,
            self |-> [r.self EXCEPT !.oops = Append(@, r.one)]]
      ELSE KeywordLoop(token \o r.one, r.self)

\* the number loop accepting a decimal point the token already holds
RECURSIVE NumberLoop_Twice(_, _)
NumberLoop_Twice(token, self) ==
  LET r == Readone(self) IN
    IF Len(r.one) = 0
       \/ (~InStr(r.one, self.cfg.numchars[1]) /\ ~InStr(r.one, self.cfg.numchars[2]))
      THEN [tok |-> token, err |-> NoError,
            self |-> [r.self EXCEPT !.oops = Append(@, r.one)]]
      ELSE NumberLoop_Twice(token \o r.one, r.self)

\* the number loop dropping the character that ended it
RECURSIVE NumberLoop_Drop(_, _)
NumberLoop_Drop(token, self) ==
  LET r == Readone(self) IN
    IF Len(r.one) = 0
       \/ (~InStr(r.one, self.cfg.numchars[1]) /\ ~InStr(r.one, self.cfg.numchars[2]))
      THEN [tok |-> token, err |-> NoError, self |-> r.self]
      ELSE IF InStr(r.one, self.cfg.numchars[2]) /\ InStr(r.one, token)
        THEN [tok |-> <<>>, err |-> UnexpectedToken, self |-> r.self]
        ELSE NumberLoop_Drop(token \o r.one, r.self)

\* lines 114-123: accumulate a number over digits (numchars[0]) and decimal
\* points (numchars[1]); a point the token already holds raises, any other
\* character, a sign (numchars[2]) too, ends the number and goes to _oops
RECURSIVE NumberLoop(_, _)
NumberLoop(token, self) ==
  LET r == Readone(self) IN
    IF Len(r.one) = 0
       \/ (~InStr(r.one, self.cfg.numchars[1]) /\ ~InStr(r.one, self.cfg.numchars[2]))
      THEN [tok |-> token, err |-> NoError,
            self |-> [r.self EXCEPT !.oops = Append(@, r.one)]]
      ELSE IF InStr(r.one, self.cfg.numchars[2]) /\ InStr(r.one, token)
        THEN [tok |-> <<>>, err |-> UnexpectedToken, self |-> r.self]
        ELSE NumberLoop(token \o r.one, r.self)

\* the open markers, [x[0] for x in self.multiline_commenters]
OpenMarkers(c) == [i \in 1..Len(c.multiline_commenters) |-> c.multiline_commenters[i][1]]

\* the close markers of all pairs, the open marker not compared
CloseMarkers_Any(c, ml) ==
  [i \in 1..Len(c.multiline_commenters) |-> c.multiline_commenters[i][2]]

\* [x[1] for x in self.multiline_commenters if x[0] == ntoken]; nothing
\* equals the pair (token, False)
CloseMarkers(c, ml) ==
  IF ml.kind = "str"
    THEN LET m == SelectSeq(c.multiline_commenters, LAMBDA x : x[1] = ml.tok)
         IN [i \in 1..Len(m) |-> m[i][2]]
    ELSE <<>>

\* The result of read_token: val (the token), err, self (the object
\* afterwards), one (the character the last pass of the scan loop started
\* with) and via, "read".  The stages of one pass follow, last stage first;
\* each takes what the stage before it found.  A pass that ends in `continue`
\* leaves via "continue".
RECURSIVE ReadToken(_)

\* the element of a singleton.  A stage binds what it was given to a name
\* this way, so that it is computed once however often the stage refers to
\* it.
The(S) == CHOOSE x \in S : TRUE

\* the token or the error of a recognizer, as the result of read_token
Returned(made, token) ==
  The({ [val |-> x.tok, err |-> x.err, self |-> x.self, one |-> token, via |-> "read"] :
        x \in {made} })

Raised(e, token, self) ==
  [val |-> <<>>, err |-> e, self |-> self, one |-> token, via |-> "read"]

\* `continue` (lines 86, 92, 98): the pass ends and returns nothing
Continue(token, self) ==
  [val |-> <<>>, err |-> NoError, self |-> self, one |-> token, via |-> "continue"]

\* lines 105-126: an identifier, a number, or the character alone
Classify(token, self) ==
  IF InStr(token, self.cfg.tokenchars[1])
    THEN Returned(KeywordLoop(token, self), token)
    ELSE IF InStr(token, self.cfg.numchars[1]) \/ InStr(token, self.cfg.numchars[3])
      THEN Returned(NumberLoop(token, self), token)
      ELSE [val |-> token, err |-> NoError, self |-> self, one |-> token, via |-> "read"]

\* lines 100-103: q is what _findtokens found among the quotes
FindStrings(token, found) ==
  The({ IF q.kind # "None"
          THEN Returned(Consumestring(q, q.self), token)
          ELSE Classify(token, q.self) : q \in {found} })

\* `continue` after _consumeuntil consumed a comment c
SkipComment(token, consumed) ==
  The({ IF c.err # NoError
          THEN Raised(c.err, token, c.self)
          ELSE Continue(token, c.self) : c \in {consumed} })

\* line 97: consume until the first close marker listed for the open marker
SkipMultilineBody(token, ml, listed) ==
  The({ IF Len(close) = 0
          THEN Raised(IndexError, token, ml.self)
          ELSE SkipComment(token, Consumeuntil(close[1], TRUE, TRUE, ml.self)) :
        close \in {listed} })

\* lines 94-98: ml is what _findtokens found among the open markers
SkipMultiline(token, found) ==
  The({ IF ml.kind # "None"
          THEN SkipMultilineBody(token, ml, CloseMarkers(ml.self.cfg, ml))
          ELSE FindStrings(token, Findtokens(token, Chars(ml.self.cfg.quotes), ml.self)) :
        ml \in {found} })

\* lines 88-92: ol is what _findtokens found among the one-line markers
SkipOneline(token, found) ==
  The({ IF ol.kind # "None"
          THEN SkipComment(token, Consumeuntil(<<LF>>, TRUE, TRUE, ol.self))
          ELSE SkipMultiline(token, Findtokens(token, OpenMarkers(ol.self.cfg), ol.self)) :
        ol \in {found} })

\* a pass that puts the whitespace character back before `continue`
SkipWhitespace_Again(token, found) ==
  The({ IF ws.kind # "None"
          THEN Continue(token, [ws.self EXCEPT !.oops = <<token>> \o @])
          ELSE SkipOneline(token, Findtokens(token, ws.self.cfg.oneline_commenters, ws.self)) :
        ws \in {found} })

\* lines 83-86: ws is what _findtokens found among the whitespace
SkipWhitespace(token, found) ==
  The({ IF ws.kind # "None"
          THEN Continue(token, ws.self)
          ELSE SkipOneline(token, Findtokens(token, ws.self.cfg.oneline_commenters, ws.self)) :
        ws \in {found} })

\* lines 78-81: r is what _readone read
ScanPass(read) ==
  The({ IF r.one = <<>>
          THEN [val |-> r.self.cfg.eof, err |-> NoError, self |-> r.self, one |-> r.one,
                via |-> "read"]
          ELSE SkipWhitespace(r.one, Findtokens(r.one, Chars(r.self.cfg.whitespace), r.self)) :
        r \in {read} })

\* line 77, `while True`: p is what a pass of the loop left
ScanLoop(pass) ==
  The({ IF p.via = "continue" THEN ReadToken(p.self) ELSE p : p \in {pass} })

ReadToken(self) == ScanLoop(ScanPass(Readone(self)))

\* ------------------------------------------------------------ get_token
\* get_token() taking the oldest entry of the stack, not the newest
GetTokenOp_Oldest(self) ==
  IF Len(self.tokenstack) > 0
    THEN [val  |-> Head(self.tokenstack),
          err  |-> NoError,
          self |-> [self EXCEPT !.tokenstack = Tail(@)],
          one  |-> <<>>,
          via  |-> "stack"]
    ELSE ReadToken(self)

\* the top of the token stack if it holds any, else read_token()
GetTokenOp(self) ==
  IF Len(self.tokenstack) > 0
    THEN [val  |-> self.tokenstack[Len(self.tokenstack)],
          err  |-> NoError,
          self |-> [self EXCEPT !.tokenstack = SubSeq(@, 1, Len(@) - 1)],
          one  |-> <<>>,
          via  |-> "stack"]
    ELSE ReadToken(self)

\* ------------------------------------------------------------ push_token
\* push_token() inserting below the entries already there
PushTokenOp_Below(self, token) == [self EXCEPT !.tokenstack = <<token>> \o @]

\* push_token() that also discards the characters pushed back
PushTokenOp_Unread(self, token) ==
  [self EXCEPT !.tokenstack = Append(@, token), !.oops = <<>>]

\* lines 128-132
PushTokenOp(self, token) == [self EXCEPT !.tokenstack = Append(@, token)]

\* ------------------------------------------------------------ split
\* the return without `items.pop()`: the eof stays in the result
SplitReturn_KeepEof(its) == [val |-> its, err |-> NoError]

\* lines 245-246: drop the eof and return
SplitReturn(its) == [val |-> SubSeq(its, 1, Len(its) - 1), err |-> NoError]

RECURSIVE SplitLoop(_, _)

\* line 244: g is what cl.get_token() did; an error leaves split
SplitAppend(its, g) ==
  IF g.err # NoError
    THEN [val |-> <<>>, err |-> g.err]
    ELSE SplitLoop(Append(its, g.val), g.self)

\* line 243
SplitLoop(its, cl) ==
  IF Len(its) = 0 \/ its[Len(its)] # cl.cfg.eof
    THEN SplitAppend(its, GetTokenOp(cl))
    ELSE SplitReturn(its)

Split(text) == SplitLoop(<<>>, NewClex(DefaultCfg, text))

\* ------------------------------------------------------------ bounds
\* longest text given to a scanner driven through its whole interface
MaxSrc == 2
\* calls made on it
MaxCalls == 6
\* longest text scanned to its end, and calls made past its length
MaxLen == 4
ExtraGets == 2
\* longest text of the comment and of the string scans
MaxCmt == 6
MaxStr == 5

\* all texts over the characters A, no longer than n
Texts(A, n) == UNION { [1..k -> A] : k \in 0..n }

\* ------------------------------------------------------------ state
\* the scanner object the variables hold
Self == [cfg |-> cfg, instream |-> instream, tokenstack |-> tokenstack, oops |-> oops]

\* what of an object its calls change: the stream position, the pushback
\* buffer and the token stack
Snap(self) == [pos |-> self.instream.pos, oops |-> self.oops, tokenstack |-> self.tokenstack]

\* the object with the parts of the snapshot s
Restore(s) ==
  [cfg |-> cfg, instream |-> [data |-> instream.data, pos |-> s.pos],
   tokenstack |-> s.tokenstack, oops |-> s.oops]

\* the snapshot before the i-th call
Before(i) == IF i = 1 THEN Snap(NewClex(cfg, instream.data)) ELSE log[i - 1].post

\* a token the scanner never produces
Foreign == <<"@", "@">>

TypeOK ==
  /\ instream.pos \in 1..(Len(instream.data) + 1)
  /\ ret.err \in {NoError, UnexpectedToken, UnexpectedEOFError, UnexpectedEOLError,
                  IndexError, TypeError}

\* the state after clex(text), configured as c; nothing called yet
InitWith(c, text) ==
  /\ cfg = c
  /\ instream = [data |-> text, pos |-> 1]
  /\ tokenstack = <<>>
  /\ oops = <<>>
  /\ ret = [val |-> <<>>, err |-> NoError, one |-> <<>>, via |-> "none"]
  /\ log = <<>>
  /\ items = [done |-> FALSE, val |-> <<>>, err |-> NoError]

\* what a call leaves: the object, its result, and the record of the call
Leave(op, g) ==
  /\ cfg' = g.self.cfg
  /\ instream' = g.self.instream
  /\ tokenstack' = g.self.tokenstack
  /\ oops' = g.self.oops
  /\ ret' = [val |-> g.val, err |-> g.err, one |-> g.one, via |-> g.via]
  /\ log' = Append(log, [op |-> op, via |-> g.via, val |-> g.val, err |-> g.err,
                       post |-> Snap(g.self)])
  /\ UNCHANGED items

\* get_token()
GetToken(limit) ==
  /\ Len(log) < limit
  /\ Leave("get_token", GetTokenOp(Self))

\* read_token(), called directly
ReadTokenCall(limit) ==
  /\ Len(log) < limit
  /\ Leave("read_token", ReadToken(Self))

\* push_token(t): the token just returned, or one the scanner never made
PushToken(limit) ==
  /\ Len(log) < limit
  /\ \E t \in {Foreign} \cup (IF ret.via # "none" /\ ret.err = NoError THEN {ret.val} ELSE {}) :
       Leave("push_token", [val |-> t, err |-> NoError, self |-> PushTokenOp(Self, t),
                            one |-> <<>>, via |-> "none"])

\* what split left: its result or its error
Done(r) == [done |-> TRUE, val |-> r.val, err |-> r.err]

\* split(text) on the text the scanner was made from
SplitCall ==
  /\ ~items.done
  /\ items' = Done(Split(instream.data))
  /\ UNCHANGED <<cfg, instream, tokenstack, oops, ret, log>>

\* ------------------------------------------------------------ specifications
\* the whole interface on short texts
ApiChars == {"a", SP, DQ}

Init == \E text \in Texts(ApiChars, MaxSrc) : InitWith(DefaultCfg, text)

Next == GetToken(MaxCalls) \/ ReadTokenCall(MaxCalls) \/ PushToken(MaxCalls)

Spec == Init /\ [][Next]_vars

\* ------------------------------------------------------------ token stack
\* calls i..j of the log are all `op`
AllOp(i, j, op) == \A m \in i..j : log[m].op = op

\* the i-th call is a get_token() that returned a token, the next call
\* pushes that token back and the call after it is a get_token()
PushedBack(i) ==
  /\ i + 2 <= Len(log)
  /\ log[i].op = "get_token" /\ log[i].err = NoError
  /\ log[i + 1].op = "push_token" /\ log[i + 1].val = log[i].val
  /\ log[i + 2].op = "get_token"

\* C1: a token returned by get_token() and pushed back is what the next
\* get_token() returns, from the stack; the scanner is then as it was right
\* after the first get_token(), and the get_token() after that returns what
\* get_token() returns from that state (not the pushed token again).
C1_RoundTrip ==
  \A i \in 1..Len(log) :
    PushedBack(i) =>
      /\ log[i + 2].err = NoError
      /\ log[i + 2].val = log[i].val
      /\ log[i + 2].via = "stack"
      /\ log[i + 2].post = log[i].post
      /\ (i + 3 <= Len(log) /\ log[i + 3].op = "get_token") =>
           LET g == GetTokenOp(Restore(log[i].post))
           IN /\ log[i + 3].val = g.val
              /\ log[i + 3].err = g.err
              /\ log[i + 3].post = Snap(g.self)

\* "a" read, pushed back, returned again, and then the eof that follows it
C1_Witness ==
  /\ Len(log) >= 4
  /\ PushedBack(1)
  /\ log[1].via = "read" /\ log[1].val = <<"a">>
  /\ log[3].val = <<"a">>
  /\ log[4].op = "get_token" /\ log[4].via = "read" /\ log[4].val = <<>>

\* C2: after push_token(t1), ..., push_token(tn) the k-th following
\* get_token() (k <= n, no other call in between) returns t(n-k+1) from the
\* stack, leaving stream and pushback buffer alone; when the stack was empty
\* before t1, the (n+1)-th is the first that performs read_token().
C2_LIFO ==
  \A i \in 1..Len(log) : \A j \in i..Len(log) :
    AllOp(i, j, "push_token") =>
      /\ \A k \in 1..(j - i + 1) :
           (j + k <= Len(log) /\ AllOp(j + 1, j + k, "get_token")) =>
             /\ log[j + k].via = "stack"
             /\ log[j + k].err = NoError
             /\ log[j + k].val = log[j - k + 1].val
             /\ log[j + k].post.pos = log[j].post.pos
             /\ log[j + k].post.oops = log[j].post.oops
      /\ LET n == j - i + 1
         IN (/\ Before(i).tokenstack = <<>>
             /\ j + n + 1 <= Len(log)
             /\ AllOp(j + 1, j + n + 1, "get_token")) =>
               log[j + n + 1].via = "read"

\* two different tokens pushed, one of them never produced by the scanner,
\* come back in reverse order and the third get_token() reads
C2_Witness ==
  /\ Len(log) = 6
  /\ log[1].op = "get_token"
  /\ AllOp(2, 3, "push_token") /\ AllOp(4, 6, "get_token")
  /\ log[2].val # log[3].val /\ log[3].val = Foreign
  /\ log[4].val = log[3].val /\ log[5].val = log[2].val
  /\ log[6].via = "read"

\* ------------------------------------------------------------ scanning
\* Texts scanned to their end and past it with get_token() alone, and split
\* of the same text, under the default configuration.
ScanChars == {"a", "1", SP, LF, "/", "*", DQ}

InitScan == \E text \in Texts(ScanChars, MaxLen) : InitWith(DefaultCfg, text)

NextScan == GetToken(Len(instream.data) + ExtraGets) \/ SplitCall

SpecScan == InitScan /\ [][NextScan]_vars

\* The same under other configurations: a one-line comment marker of three
\* characters, and each of the four candidate sets empty.
TripleSlashCfg == [DefaultCfg EXCEPT !.oneline_commenters = << <<"/", "/", "/">> >>]

NoWhitespaceCfg == [DefaultCfg EXCEPT !.whitespace = <<>>]

NoQuotesCfg == [DefaultCfg EXCEPT !.quotes = <<>>]

NoOnelineCfg == [DefaultCfg EXCEPT !.oneline_commenters = <<>>]

NoMultilineCfg == [DefaultCfg EXCEPT !.multiline_commenters = <<>>]

OtherCfgs ==
  {DefaultCfg, TripleSlashCfg, NoWhitespaceCfg, NoQuotesCfg, NoOnelineCfg, NoMultilineCfg}

CfgChars == {"a", SP, "/", DQ}

InitCfg == \E c \in OtherCfgs : \E text \in Texts(CfgChars, MaxLen) : InitWith(c, text)

SpecCfg == InitCfg /\ [][NextScan]_vars

\* the i-th call read from the input and returned the token t
Read(i, t) == log[i].via = "read" /\ log[i].err = NoError /\ log[i].val = t

\* C3 (as claimed): once the source is exhausted and a get_token() on an
\* empty stack has returned eof, every later get_token() on an empty stack
\* returns eof and raises nothing, whatever the configuration.
C3_EofForever ==
  \A i \in 1..Len(log) : \A j \in (i + 1)..Len(log) :
    (/\ Read(i, cfg.eof)
     /\ log[i].post.pos > Len(instream.data)
     /\ log[j].via = "read") =>
       Read(j, cfg.eof)

\* C4: an empty token comes from read_token() only as eof, returned when
\* the character a pass of the scan loop started with is '' and the stream
\* is exhausted; every other returned token has at least one character.
C4_NonEmpty ==
  (ret.via = "read" /\ ret.err = NoError) =>
    /\ (ret.val = cfg.eof) <=> (ret.one = <<>>)
    /\ ret.one = <<>> => instream.pos > Len(instream.data)
    /\ ret.one # <<>> => Len(ret.val) >= 1 /\ ret.val[1] = ret.one[1]

\* an identifier that ends at the end of the input has been returned
C4_Witness ==
  /\ ret.via = "read" /\ ret.err = NoError
  /\ ret.val = <<"a", "1">> /\ ret.one = <<"a">>
  /\ instream.pos > Len(instream.data)

\* the default whitespace characters
IsWhitespace(ch) == ch \in {SP, TAB, CR, LF}

\* C5: on a text of whitespace characters alone (the empty text too) the
\* first get_token() returns eof and raises nothing.
C5_WhitespaceOnly ==
  (/\ Len(log) >= 1
   /\ \A i \in 1..Len(instream.data) : IsWhitespace(instream.data[i])) =>
     Read(1, cfg.eof)

\* a text of two different whitespace characters, scanned once
C5_Witness ==
  /\ Len(log) >= 1
  /\ instream.data = <<SP, LF>>
  /\ Read(1, cfg.eof)

\* the calls before the i-th all returned tokens other than eof
BeforeEof(i) == \A m \in 1..(i - 1) : log[m].err = NoError /\ log[m].val # cfg.eof

\* C6: split(text) is the sequence of tokens get_token() returns on a fresh
\* scanner before the first eof, in order, the eof left out; split of the
\* empty text is the empty sequence; when a call before the first eof
\* raises, split raises that error.
C6_Split ==
  (items.done /\ cfg = DefaultCfg) =>
    /\ \A m \in 1..Len(items.val) : items.val[m] # cfg.eof
    /\ instream.data = <<>> => (items.err = NoError /\ items.val = <<>>)
    /\ \A i \in 1..Len(log) :
         BeforeEof(i) =>
           /\ log[i].err # NoError => items.err = log[i].err
           /\ (log[i].err = NoError /\ items.err = NoError) =>
                IF log[i].val = cfg.eof
                  THEN Len(items.val) = i - 1
                  ELSE i <= Len(items.val) /\ items.val[i] = log[i].val

\* split returned two tokens and get_token() has returned them and the eof
C6_Witness ==
  /\ items.done /\ cfg = DefaultCfg /\ items.err = NoError
  /\ items.val = << <<"a">>, <<"/">> >>
  /\ Len(log) = 3 /\ Read(1, <<"a">>) /\ Read(2, <<"/">>) /\ Read(3, cfg.eof)

\* ------------------------------------------------------------ unread input
\* _oops as one text: its entries in order ('' adds nothing)
RECURSIVE Flat(_)
Flat(o) == IF Len(o) = 0 THEN <<>> ELSE Head(o) \o Flat(Tail(o))

\* what an object has yet to read: the pushback buffer, then the stream
UnreadOf(self) ==
  Flat(self.oops) \o SubSeq(self.instream.data, self.instream.pos, Len(self.instream.data))

Unread(s) == UnreadOf(Restore(s))

\* u without its first n characters
Drop(u, n) == SubSeq(u, n + 1, Len(u))

\* how many whitespace characters u starts with
RECURSIVE LeadingWs(_)
LeadingWs(u) ==
  IF Len(u) > 0 /\ InStr(<<u[1]>>, cfg.whitespace) THEN 1 + LeadingWs(Tail(u)) ELSE 0

Min(S) == CHOOSE x \in S : \A y \in S : x <= y

\* where in u the first of the texts V ends that begins after index k; 0
\* when there is none
EndOfFirst(u, V, k) ==
  LET E == { e \in (k + 1)..Len(u) :
               \E v \in V : e - Len(v) >= k /\ SubSeq(u, e - Len(v) + 1, e) = v }
  IN IF E = {} THEN 0 ELSE Min(E)

\* u after a comment whose marker ends at index k and that one of V ends:
\* nothing when no such end follows
AfterComment(u, V, k) ==
  IF EndOfFirst(u, V, k) = 0 THEN <<>> ELSE Drop(u, EndOfFirst(u, V, k))

\* the i-th call did what read_token() does on a scanner given `rest`: the
\* same token or error, and the same input left unread
SameAsOn(i, rest) ==
  LET g == ReadToken(NewClex(cfg, rest))
  IN /\ log[i].val = g.val
     /\ log[i].err = g.err
     /\ Unread(log[i].post) = UnreadOf(g.self)

\* the unread input before the i-th call, a read_token(), is whitespace and
\* then the text m
StartsAt(i, m) ==
  /\ log[i].via = "read"
  /\ StartsWith(Drop(Unread(Before(i)), LeadingWs(Unread(Before(i)))), m)

\* where m ends in that input
EndOf(i, m) == LeadingWs(Unread(Before(i))) + Len(m)

\* read_token() called on texts, to their end and past it
NextRead == ReadTokenCall(Len(instream.data) + ExtraGets)

\* ------------------------------------------------------------ one-line comments
LineChars == {"a", "/", LF, CR}

InitLine == \E text \in Texts(LineChars, MaxCmt) : InitWith(DefaultCfg, text)

SpecLine == InitLine /\ [][NextRead]_vars

\* C7 (as claimed): a one-line comment is discarded up to and including the
\* next line terminator, carriage return or line feed, or to the end of the
\* input, and scanning resumes right after it.
C7_UntilLineTerminator ==
  \A i \in 1..Len(log) : \A m \in 1..Len(cfg.oneline_commenters) :
    StartsAt(i, cfg.oneline_commenters[m]) =>
      SameAsOn(i, AfterComment(Unread(Before(i)), {<<CR>>, <<LF>>},
                               EndOf(i, cfg.oneline_commenters[m])))

\* C7 (amended): a one-line comment is discarded up to and including the
\* next line feed, or to the end of the input when none follows (a carriage
\* return is discarded like any character of the comment); read_token()
\* does then what it does on the input after that line feed, so the comment
\* yields no token and no error.
C7_UntilLineFeed ==
  \A i \in 1..Len(log) : \A m \in 1..Len(cfg.oneline_commenters) :
    StartsAt(i, cfg.oneline_commenters[m]) =>
      SameAsOn(i, AfterComment(Unread(Before(i)), {<<LF>>},
                               EndOf(i, cfg.oneline_commenters[m])))

\* 'a//a<LF>a' read three times: a, the a after the comment, eof
C7_Witness ==
  /\ instream.data = <<"a", "/", "/", "a", LF, "a">>
  /\ Len(log) = 3
  /\ Read(1, <<"a">>) /\ log[1].post.pos = 3
  /\ StartsAt(2, <<"/", "/">>)
  /\ Read(2, <<"a">>) /\ log[2].post.pos = 7
  /\ Read(3, cfg.eof)

\* ------------------------------------------------------------ multi-line comments
TwoPairCfg ==
  [DefaultCfg EXCEPT !.multiline_commenters =
     << << <<"/", "*">>, <<"*", "/">> >>, << <<"/", "#">>, <<"#", "/">> >> >>]

BlockChars == {"/", "*", "#", LF}

InitBlock ==
  \E c \in {DefaultCfg, TwoPairCfg} : \E text \in Texts(BlockChars, MaxCmt) : InitWith(c, text)

SpecBlock == InitBlock /\ [][NextRead]_vars

\* C8: a multi-line comment is discarded up to and including the first
\* close marker of its own pair that lies after the open marker, line feeds
\* and the close markers of other pairs included; read_token() does then
\* what it does on the input after it, and returns eof without error when
\* the input ends before the close marker.
C8_MultilineComment ==
  \A i \in 1..Len(log) : \A m \in 1..Len(cfg.multiline_commenters) :
    LET open  == cfg.multiline_commenters[m][1]
        close == cfg.multiline_commenters[m][2]
    IN StartsAt(i, open) =>
         /\ SameAsOn(i, AfterComment(Unread(Before(i)), {close}, EndOf(i, open)))
         /\ EndOfFirst(Unread(Before(i)), {close}, EndOf(i, open)) = 0 => Read(i, cfg.eof)

\* '/#*/#/' read once: the close marker of the other pair inside the
\* comment did not end it, its own close marker did, and eof follows
C8_Witness ==
  /\ cfg = TwoPairCfg
  /\ instream.data = <<"/", "#", "*", "/", "#", "/">>
  /\ Len(log) = 1
  /\ StartsAt(1, <<"/", "#">>)
  /\ EndOfFirst(Unread(Before(1)), {<<"#", "/">>}, 2) = 6
  /\ Read(1, cfg.eof)

\* ------------------------------------------------------------ quoted strings
StringChars == {DQ, SQ, BS, "a", LF, CR}

InitString == \E text \in Texts(StringChars, MaxStr) : InitWith(DefaultCfg, text)

SpecString == InitString /\ [][NextRead]_vars

\* the unread input before the i-th call, a read_token(), is whitespace and
\* then a quote character
AtQuote(i) ==
  /\ log[i].via = "read"
  /\ LeadingWs(Unread(Before(i))) < Len(Unread(Before(i)))
  /\ InStr(<<Unread(Before(i))[LeadingWs(Unread(Before(i))) + 1]>>, cfg.quotes)

\* in the text u, index m holds the quote q and the character before it is
\* not the escape character
ClosesAt(u, m, q) == u[m] = q /\ ~InStr(<<u[m - 1]>>, cfg.escape)

\* C9: a token that starts at a quote q is the input from that q up to the
\* first later q whose preceding character is not the escape character,
\* both included; nothing else ends it, neither an escaped q (whatever
\* precedes the escape character) nor another quote character.
C9_StringCloses ==
  \A i \in 1..Len(log) :
    (AtQuote(i) /\ log[i].err = NoError) =>
      LET u == Unread(Before(i))
          k == LeadingWs(u)
          t == log[i].val
          n == Len(t)
      IN /\ n >= 2
         /\ t = SubSeq(u, k + 1, k + n)
         /\ Unread(log[i].post) = Drop(u, k + n)
         /\ ClosesAt(t, n, t[1])
         /\ \A m \in 2..(n - 1) : ~ClosesAt(t, m, t[1])

\* '"\\""': the quote after two escape characters did not close the string
C9_Witness ==
  /\ instream.data = <<DQ, BS, BS, DQ, DQ>>
  /\ Len(log) = 1
  /\ AtQuote(1)
  /\ Read(1, <<DQ, BS, BS, DQ, DQ>>)

\* C10: after an opening quote q, a carriage return or line feed before
\* the first closing q makes read_token() raise UnexpectedEOLError, also
\* right after the escape character; the end of the input before either
\* makes it raise UnexpectedEOFError; a token is returned only when the
\* closing q comes first.
C10_StringErrors ==
  \A i \in 1..Len(log) :
    AtQuote(i) =>
      LET u == Unread(Before(i))
          k == LeadingWs(u)
          C == { m \in (k + 2)..Len(u) : ClosesAt(u, m, u[k + 1]) }
          E == { m \in (k + 2)..Len(u) : u[m] \in {CR, LF} }
      IN /\ (E # {} /\ (C = {} \/ Min(E) < Min(C))) =>
              (log[i].err = UnexpectedEOLError /\ log[i].val = <<>>)
         /\ (E = {} /\ C = {}) =>
              (log[i].err = UnexpectedEOFError /\ log[i].val = <<>>)
         /\ (C # {} /\ (E = {} \/ Min(C) < Min(E))) => log[i].err = NoError

\* '"\<LF>': the line feed right after the escape character raised
C10_Witness ==
  /\ instream.data = <<DQ, BS, LF>>
  /\ Len(log) = 1
  /\ AtQuote(1)
  /\ log[1].err = UnexpectedEOLError

\* ------------------------------------------------------------ numbers
MaxNum == 5

NumChars == {"1", "5", ".", "-", "a"}

InitNum == \E text \in Texts(NumChars, MaxNum) : InitWith(DefaultCfg, text)

SpecNum == InitNum /\ [][NextRead]_vars

\* the three entries of numchars
IsDigit(ch) == InStr(<<ch>>, cfg.numchars[1])

IsPoint(ch) == InStr(<<ch>>, cfg.numchars[2])

IsSign(ch) == InStr(<<ch>>, cfg.numchars[3])

\* the unread input before the i-th call, a read_token(), is whitespace and
\* then a digit or a sign: line 114 starts a number
AtNumber(i) ==
  /\ log[i].via = "read"
  /\ LeadingWs(Unread(Before(i))) < Len(Unread(Before(i)))
  /\ \/ IsDigit(Unread(Before(i))[LeadingWs(Unread(Before(i))) + 1])
     \/ IsSign(Unread(Before(i))[LeadingWs(Unread(Before(i))) + 1])

\* the characters of u after index k + 1 and before index m are digits and
\* decimal points, no point twice: the number that starts at k + 1 has
\* accumulated them all when it reads u[m]
Accumulated(u, k, m) ==
  \A j \in (k + 2)..(m - 1) :
    /\ IsDigit(u[j]) \/ IsPoint(u[j])
    /\ IsPoint(u[j]) => \A l \in (k + 1)..(j - 1) : u[l] # u[j]

\* u[m] occurs in the token accumulated from index k + 1
Repeated(u, k, m) == \E l \in (k + 1)..(m - 1) : u[l] = u[m]

\* no decimal point and no sign occurs twice in t
EachOnce(t) ==
  \A a \in 1..Len(t) : \A b \in (a + 1)..Len(t) :
    t[a] = t[b] => ~(IsPoint(t[a]) \/ IsSign(t[a]))

\* C11 (as claimed): while a number is accumulated, a once-only character,
\* decimal point or sign, that the accumulated token already holds makes
\* read_token() raise UnexpectedToken; a returned number holds each of them
\* at most once.
C11_OnceOnly ==
  \A i \in 1..Len(log) :
    AtNumber(i) =>
      LET u == Unread(Before(i))
          k == LeadingWs(u)
      IN /\ \A m \in (k + 2)..Len(u) :
              (/\ Accumulated(u, k, m)
               /\ IsPoint(u[m]) \/ IsSign(u[m])
               /\ Repeated(u, k, m)) => log[i].err = UnexpectedToken
         /\ log[i].err = NoError => EachOnce(log[i].val)

\* C11 (amended): while a number is accumulated, a decimal point that the
\* accumulated token already holds makes read_token() raise UnexpectedToken;
\* a sign, repeated or not, raises nothing: it ends the number, which is
\* returned without it. A returned number holds the decimal point at most
\* once and a sign nowhere but at its start.
C11_PointOnce ==
  \A i \in 1..Len(log) :
    AtNumber(i) =>
      LET u == Unread(Before(i))
          k == LeadingWs(u)
      IN /\ \A m \in (k + 2)..Len(u) :
              Accumulated(u, k, m) =>
                /\ (IsPoint(u[m]) /\ Repeated(u, k, m)) => log[i].err = UnexpectedToken
                /\ IsSign(u[m]) => Read(i, SubSeq(u, k + 1, m - 1))
         /\ log[i].err = NoError =>
              /\ EachOnce(log[i].val)
              /\ \A a \in 2..Len(log[i].val) : ~IsSign(log[i].val[a])

\* '1.5.5' read once: the second decimal point raised
C11_Witness ==
  /\ instream.data = <<"1", ".", "5", ".", "5">>
  /\ Len(log) = 1
  /\ AtNumber(1)
  /\ log[1].err = UnexpectedToken

\* where the run of characters of s ends that u has after index k
RunOver(u, k, s) ==
  CHOOSE m \in k..Len(u) :
    /\ \A j \in (k + 1)..m : InStr(<<u[j]>>, s)
    /\ m = Len(u) \/ ~InStr(<<u[m + 1]>>, s)

\* C12 (as claimed): a digit, a sign or a decimal point starts a number,
\* which runs over every following digit, sign and decimal point ('.5' is
\* the token '.5'); the character that ends it is pushed back.
C12_LeadingOnce ==
  \A i \in 1..Len(log) :
    LET u == Unread(Before(i))
        k == LeadingWs(u)
    IN (/\ log[i].via = "read" /\ log[i].err = NoError
        /\ k < Len(u)
        /\ IsDigit(u[k + 1]) \/ IsPoint(u[k + 1]) \/ IsSign(u[k + 1])) =>
          LET e == RunOver(u, k + 1, cfg.numchars[1] \o cfg.numchars[2] \o cfg.numchars[3])
          IN /\ log[i].val = SubSeq(u, k + 1, e)
             /\ Unread(log[i].post) = Drop(u, e)

\* C12 (amended): a digit or a sign starts a number, a decimal point does
\* not: a leading decimal point is a token of its own. The number runs over
\* every following digit and decimal point, not over a sign; the character
\* that ends it is pushed back, the next read_token() starts with it.
C12_DigitOrSign ==
  \A i \in 1..Len(log) :
    LET u == Unread(Before(i))
        k == LeadingWs(u)
    IN (log[i].via = "read" /\ log[i].err = NoError /\ k < Len(u)) =>
         /\ AtNumber(i) =>
              LET e == RunOver(u, k + 1, cfg.numchars[1] \o cfg.numchars[2])
              IN /\ log[i].val = SubSeq(u, k + 1, e)
                 /\ Unread(log[i].post) = Drop(u, e)
         /\ IsPoint(u[k + 1]) =>
              /\ log[i].val = <<u[k + 1]>>
              /\ Unread(log[i].post) = Drop(u, k + 1)

\* '.5-5a' read four times: '.', '5', '-5' and the 'a' that ended it
C12_Witness ==
  /\ instream.data = <<".", "5", "-", "5", "a">>
  /\ Len(log) = 4
  /\ Read(1, <<".">>) /\ Read(2, <<"5">>)
  /\ AtNumber(3) /\ Read(3, <<"-", "5">>)
  /\ Read(4, <<"a">>)

\* ------------------------------------------------------------ identifiers
\* the unread input before the i-th call, a read_token(), is whitespace and
\* then a character of tokenchars[0]: line 106 starts an identifier
AtIdentifier(i) ==
  /\ log[i].via = "read"
  /\ LeadingWs(Unread(Before(i))) < Len(Unread(Before(i)))
  /\ InStr(<<Unread(Before(i))[LeadingWs(Unread(Before(i))) + 1]>>, cfg.tokenchars[1])

\* C13: an identifier is its first character and the whole run of
\* identifier characters after it, no more and no less; the character that
\* ended it is pushed back and is what the input left unread starts with, so
\* the next read_token() starts with it; when the input ends inside the
\* identifier it is returned and the next read_token() returns eof.
C13_Identifier ==
  \A i \in 1..Len(log) :
    AtIdentifier(i) =>
      LET u == Unread(Before(i))
          k == LeadingWs(u)
          e == RunOver(u, k + 1, cfg.tokenchars[1] \o cfg.tokenchars[2])
      IN /\ Read(i, SubSeq(u, k + 1, e))
         /\ Unread(log[i].post) = Drop(u, e)
         /\ (e = Len(u) /\ i < Len(log) /\ log[i + 1].via = "read") => Read(i + 1, cfg.eof)

\* 'a1/a' read to its end: 'a1' ended by '/', '/' itself, 'a' ended by the
\* end of the input, then eof
C13_Witness ==
  /\ instream.data = <<"a", "1", "/", "a">>
  /\ Len(log) = 4
  /\ AtIdentifier(1) /\ Read(1, <<"a", "1">>)
  /\ Read(2, <<"/">>)
  /\ AtIdentifier(3) /\ Read(3, <<"a">>)
  /\ Read(4, cfg.eof)

\* ------------------------------------------------------------ pushback order
\* C14 (as claimed): whatever the marker sets, characters restored to the
\* pushback buffer go in front of what waits there, so between operations
\* the buffer followed by the unread rest of the stream is a suffix of the
\* input the scanner was made from.
C14_OrderKept == EndsWith(instream.data, UnreadOf(Self))

\* ------------------------------------------------------------ empty candidate sets
\* one of the four candidate sets of the configuration is empty
HasEmptySet(c) ==
  \/ Len(c.whitespace) = 0
  \/ Len(c.oneline_commenters) = 0
  \/ Len(c.multiline_commenters) = 0
  \/ Len(c.quotes) = 0

\* C15 (as claimed): an empty set of whitespace characters, one-line
\* markers, multi-line pairs or quotes matches nothing: read_token() goes on
\* to the later classifications, so it raises no error of its own making and
\* an identifier the input starts with is returned as it is otherwise.
C15_EmptySetNoMatch ==
  \A i \in 1..Len(log) :
    (HasEmptySet(cfg) /\ log[i].via = "read") =>
      /\ log[i].err \notin {IndexError, TypeError}
      /\ AtIdentifier(i) =>
           Read(i, SubSeq(Unread(Before(i)), LeadingWs(Unread(Before(i))) + 1,
                          RunOver(Unread(Before(i)), LeadingWs(Unread(Before(i))) + 1,
                                  cfg.tokenchars[1] \o cfg.tokenchars[2])))

\* ------------------------------------------------------------ markers that extend markers
\* two multi-line pairs, the open marker of one a proper extension of the
\* open marker of the other, listed in either order
ExtendCfg ==
  [DefaultCfg EXCEPT !.multiline_commenters =
     << << <<"/", "*">>, <<"*", "/">> >>, << <<"/", "*", "*">>, <<"#">> >> >>]

ExtendFirstCfg ==
  [DefaultCfg EXCEPT !.multiline_commenters =
     << << <<"/", "*", "*">>, <<"#">> >>, << <<"/", "*">>, <<"*", "/">> >> >>]

MatchChars == {"/", "*", "#", "a"}

InitMatch ==
  \E c \in {ExtendCfg, ExtendFirstCfg} : \E text \in Texts(MatchChars, MaxCmt) :
    InitWith(c, text)

SpecMatch == InitMatch /\ [][NextRead]_vars

\* the open markers of the configuration that the unread input before the
\* i-th call starts with, after whitespace
OpensAt(i) ==
  { cfg.multiline_commenters[m][1] : m \in
      { n \in 1..Len(cfg.multiline_commenters) : StartsAt(i, cfg.multiline_commenters[n][1]) } }

\* the comment at the i-th call is the one the pair m opens: it ends with
\* the first close marker of m after the open marker of m
CommentOf(i, m) ==
  SameAsOn(i, AfterComment(Unread(Before(i)), {cfg.multiline_commenters[m][2]},
                           EndOf(i, cfg.multiline_commenters[m][1])))

\* C16 (as claimed): of the candidates the input spells, _findtokens
\* returns the longest: where the input spells an open marker and its
\* extension, the comment is the one the extension opens.
C16_Longest ==
  \A i \in 1..Len(log) : \A m \in 1..Len(cfg.multiline_commenters) :
    (/\ cfg.multiline_commenters[m][1] \in OpensAt(i)
     /\ \A o \in OpensAt(i) : Len(o) <= Len(cfg.multiline_commenters[m][1])) =>
       CommentOf(i, m)

\* C16 (amended): of the candidates the input spells, _findtokens returns
\* the shortest, as soon as the characters read spell it and reading nothing
\* beyond it: where the input spells an open marker and its extension, the
\* comment is the one the shorter marker opens, and the characters by which
\* the extension is longer are the first characters of the comment.
C16_Shortest ==
  \A i \in 1..Len(log) : \A m \in 1..Len(cfg.multiline_commenters) :
    (/\ cfg.multiline_commenters[m][1] \in OpensAt(i)
     /\ \A o \in OpensAt(i) : Len(o) >= Len(cfg.multiline_commenters[m][1])) =>
       CommentOf(i, m)

\* '/**/a' read once: the input spells '/**', the comment is the one '/*'
\* opened, '*/' closed it and 'a' is returned
C16_Witness ==
  /\ cfg = ExtendCfg
  /\ instream.data = <<"/", "*", "*", "/", "a">>
  /\ Len(log) = 1
  /\ OpensAt(1) = {<<"/", "*">>, <<"/", "*", "*">>}
  /\ Read(1, <<"a">>)

\* ------------------------------------------------------------ single characters
\* the unread input before the i-th call, a read_token(), is whitespace and
\* then a character that no classification of lines 83-123 takes: it spells
\* no comment marker with what follows it, is no quote, and starts neither
\* an identifier nor a number
AtOther(i) ==
  LET u == Unread(Before(i))
      k == LeadingWs(u)
  IN /\ log[i].via = "read"
     /\ k < Len(u)
     /\ \A m \in 1..Len(cfg.oneline_commenters) : ~StartsAt(i, cfg.oneline_commenters[m])
     /\ \A m \in 1..Len(cfg.multiline_commenters) : ~StartsAt(i, cfg.multiline_commenters[m][1])
     /\ ~InStr(<<u[k + 1]>>, cfg.quotes)
     /\ ~InStr(<<u[k + 1]>>, cfg.tokenchars[1])
     /\ ~IsDigit(u[k + 1]) /\ ~IsSign(u[k + 1])

\* C17: such a character is returned alone, as a token of one character,
\* and whatever was read after it to test it against the comment markers is
\* unread again: the input left is the input after that character, the end
\* of the input if it was the last.
C17_SingleChar ==
  \A i \in 1..Len(log) :
    AtOther(i) =>
      LET u == Unread(Before(i))
          k == LeadingWs(u)
      IN /\ Read(i, <<u[k + 1]>>)
         /\ Unread(log[i].post) = Drop(u, k + 1)
         /\ (k + 1 = Len(u) /\ i < Len(log) /\ log[i + 1].via = "read") => Read(i + 1, cfg.eof)

\* '/a /' read to its end: '/' with the 'a' read after it seen again, 'a',
\* the '/' at the end of the input, eof
C17_Witness ==
  /\ instream.data = <<"/", "a", SP, "/">>
  /\ Len(log) = 4
  /\ AtOther(1) /\ Read(1, <<"/">>)
  /\ Read(2, <<"a">>)
  /\ AtOther(3) /\ Read(3, <<"/">>)
  /\ Read(4, cfg.eof)

\* ------------------------------------------------------------ pushback size
\* C19: under the default configuration _oops never holds more than one
\* entry.
C19_OneEntry == cfg = DefaultCfg => Len(oops) <= 1

\* '/a' after one get_token(): the 'a' read after the '/' waits in _oops
C19_Witness ==
  /\ cfg = DefaultCfg
  /\ instream.data = <<"/", "a">>
  /\ Len(log) = 1 /\ Read(1, <<"/">>)
  /\ oops = << <<"a">> >>

\* ------------------------------------------------------------ frame
\* C18: get_token() on a non-empty stack removes the top entry, returns it,
\* and leaves the stream position and _oops alone; push_token() adds the
\* token on top and leaves them alone too; read_token(), and get_token() on
\* an empty stack, leave the stack alone whether a token or eof is returned
\* or an error raised.
C18_Frame ==
  \A i \in 1..Len(log) :
    LET b == Before(i)
        a == log[i].post
    IN /\ (log[i].op = "get_token" /\ Len(b.tokenstack) > 0) =>
            /\ log[i].via = "stack"
            /\ a.tokenstack = SubSeq(b.tokenstack, 1, Len(b.tokenstack) - 1)
            /\ a.pos = b.pos /\ a.oops = b.oops
       /\ log[i].op = "push_token" =>
            /\ a.tokenstack = Append(b.tokenstack, log[i].val)
            /\ a.pos = b.pos /\ a.oops = b.oops
       /\ (log[i].op = "read_token" \/ (log[i].op = "get_token" /\ Len(b.tokenstack) = 0)) =>
            /\ log[i].via = "read"
            /\ a.tokenstack = b.tokenstack

\* 'a"': 'a' read, leaving the quote in _oops; a token pushed; read_token()
\* raised at the quote with that token on the stack; get_token() took it
C18_Witness ==
  /\ instream.data = <<"a", DQ>>
  /\ Len(log) = 4
  /\ log[1].op = "get_token" /\ Read(1, <<"a">>) /\ log[1].post.oops = << <<DQ>> >>
  /\ log[2].op = "push_token" /\ log[2].post.tokenstack = <<Foreign>>
  /\ log[3].op = "read_token" /\ log[3].err = UnexpectedEOFError
  /\ log[3].post.tokenstack = <<Foreign>>
  /\ log[4].op = "get_token" /\ log[4].via = "stack" /\ log[4].val = Foreign
  /\ log[4].post.tokenstack = <<>>

\* ------------------------------------------------------------ termination
\* split(text) one pass of the scan loop at a time.  The variables of the
\* scanner are those of the scanner split makes (line 242), `items` is its
\* list, and ret.via is "continue" while a read_token() is inside its loop.

\* what a pass p of the scan loop leaves: inside read_token() when it ended
\* in `continue`; else get_token() returns to split, which appends the token
\* (line 244) or is left by the error
Pass(p) ==
  /\ cfg' = p.self.cfg
  /\ instream' = p.self.instream
  /\ tokenstack' = p.self.tokenstack
  /\ oops' = p.self.oops
  /\ ret' = [val |-> p.val, err |-> p.err, one |-> p.one, via |-> p.via]
  /\ IF p.via = "continue"
       THEN UNCHANGED <<log, items>>
       ELSE /\ log' = Append(log, [op |-> "get_token", via |-> p.via, val |-> p.val,
                                   err |-> p.err, post |-> Snap(p.self)])
            /\ items' = IF p.err # NoError
                          THEN Done([val |-> <<>>, err |-> p.err])
                          ELSE [items EXCEPT !.val = Append(@, p.val)]

\* line 243 negated: the list ends with eof
EndsAtEof(its) == Len(its) > 0 /\ its[Len(its)] = cfg.eof

\* one pass of the loop of lines 77-126: the first of a get_token() that the
\* loop of line 243 calls, or the next after a `continue`
SplitPass ==
  /\ ~items.done
  /\ ret.via = "continue" \/ ~EndsAtEof(items.val)
  /\ \E p \in {ScanPass(Readone(Self))} : Pass(p)

\* lines 245-246: the loop of line 243 is over, split returns
SplitFinish ==
  /\ ~items.done
  /\ ret.via # "continue"
  /\ EndsAtEof(items.val)
  /\ items' = Done(SplitReturn(items.val))
  /\ UNCHANGED <<cfg, instream, tokenstack, oops, ret, log>>

NextTerm == SplitPass \/ SplitFinish

\* the program is one thread that runs until split returns or raises: a
\* step that can be taken is taken
SpecTerm == InitScan /\ [][NextTerm]_vars /\ WF_vars(NextTerm)

\* how many characters are left to read
Left == Len(UnreadOf(Self))

\* C20: under the default configuration every read_token() finishes, with a
\* token, eof or one of the three scanner errors, each pass of its loop
\* leaving fewer characters to read than it found unless none was left and
\* it returned eof; and split finishes, with what the loop of get_token()
\* calls gives or with one of those errors.
C20_Terminates ==
  /\ [][(Left' < Left) \/ (Left = 0 /\ Left' = 0 /\ ret'.via # "continue")]_<<instream, oops>>
  /\ [](ret.via = "continue" => <>(ret.via # "continue"))
  /\ [](ret.err \in {NoError, UnexpectedToken, UnexpectedEOFError, UnexpectedEOLError})
  /\ <>(items.done)
  /\ [](items.done => items = Done(Split(instream.data)))

\* split of 'a /*' returned 'a': the pass at the space continued, the pass
\* at the comment without end returned eof
C20_Witness ==
  /\ instream.data = <<"a", SP, "/", "*">>
  /\ items.done /\ items.err = NoError /\ items.val = << <<"a">> >>
  /\ Len(log) = 2 /\ Read(2, cfg.eof)
  /\ instream.pos = 5

====
